---- MODULE Spec2Model ----
(***************************************************************************)
(* The GIMP command bridge: the host-side listeners                        *)
(* (gimp-mcp-plugin.py, gimp-mcp-server.py) and the controller-side        *)
(* connection managers (src/gimp_mcp/server.py, server.py), as one state   *)
(* machine over TCP-like byte streams.                                     *)
(*                                                                         *)
(* Abstractions.  A JSON document travels as two byte fragments, a head    *)
(* and a tail; a receive returns any non-empty prefix of what is in        *)
(* flight, so a message may arrive whole or split.  A buffer decodes iff   *)
(* it is exactly the two fragments of one document.  Time is abstract:     *)
(* a 10 second socket timeout is an action that may fire whenever the      *)
(* armed socket is blocked with nothing to read.  A write on a socket      *)
(* that is still open locally succeeds (the kernel takes the bytes) even   *)
(* when the peer has gone; a write on a locally closed socket raises.      *)
(* A socket object that loses its last reference is closed at once         *)
(* (CPython reference counting).                                           *)
(***************************************************************************)
EXTENDS Integers, Sequences, FiniteSets, TLC

\* ------------------------------------------------------------------ bounds

\* Connections made over the whole run.
MaxConns == 2

ConnIds == 1..MaxConns

\* Two controller processes, each with its own module-level connection.
Clients == {"c1", "c2"}

\* "plugin": gimp-mcp-plugin.py; "server": gimp-mcp-server.py; "other": any
\* other process listening on the port.
ListenerVariants == {"plugin", "server", "other"}

\* "new": src/gimp_mcp/server.py; "old": server.py; "raw": any other TCP peer.
ControllerVariants == {"new", "old", "raw"}

VARIABLES
    listener,     \* which listener file runs in the host
    controller,   \* which peer runs on the controller side
    path,         \* the api_path the tool is called with in this run
    running,      \* the listener's accept loop is alive (plugin: self.running)
    lsock,        \* the listening socket: "none" | "listening"
    report,       \* what the run procedure has returned to the host: "none" | "success"
    rebinds,      \* sockets created and bound by a run while a listener was running
    cend,         \* per connection, the controller's end: "unused" | "open" | "closed"
    send,         \* per connection, the listener's end: "none" | "backlog" | "open" | "closed"
    c2s,          \* per connection, bytes in flight to the listener
    s2c,          \* per connection, bytes in flight to the controller
    hpc,          \* per connection, the handler thread: "none" | "recv" | "exec" | "done"
    sbuf,         \* per connection, the handler's buffer
    hreq,         \* per connection, the request a plugin handler is executing
    idleq,        \* server variant: units of work posted with GLib.idle_add
    mainExec,     \* server variant: the unit the main loop is running (<<>>: none)
    hostBusy,     \* the host's main loop is processing an event of its own
    decoded,      \* per connection, requests decoded so far
    invoked,      \* per connection, target invocations so far
    nReplies,     \* per connection, responses written so far
    fate,         \* per connection, for each request executed: whether it failed,
                  \* and the status written for it, or "lost" if the write raised
    pc,           \* per client: "idle" | "send" | "recv" | "again" (a raw peer's second wait)
    sock,         \* per client, self.sock
    gconn,        \* per client, _gimp_connection is not None
    timer,        \* per client, the socket has a timeout armed (settimeout)
    creq,         \* per client, the command of the current call
    rbuf,         \* per client, response_data
    ret,          \* the last return of call_api: who got it, on which connection,
                  \* what ended the exchange, and the string returned
    nConnects,    \* per client, connect attempts of the current call
    nSends,       \* per client, transmissions of the current call
    sample,       \* inputs on which execute_command's helpers are applied (<<>>: none)
    outcome       \* what a helper gave for the sample (<<>>: not applied)

lvars == <<listener, controller, path, running, lsock, report, rebinds>>
wire  == <<cend, send, c2s, s2c>>
hvars == <<hpc, sbuf, hreq, idleq, mainExec, hostBusy>>
hist  == <<decoded, invoked, nReplies, fate>>
cvars == <<pc, sock, gconn, timer, creq, rbuf, ret, nConnects, nSends>>
pure  == <<sample, outcome>>
vars  == <<lvars, wire, hvars, hist, cvars, pure>>

\* ------------------------------------------------------------ wire codec

\* json.dumps(m).encode('utf-8'): the document's bytes, as two fragments.
Encode(m) == << [doc |-> m, part |-> "head"], [doc |-> m, part |-> "tail"] >>

\* json.loads succeeds on exactly one whole document.
Decodes(buf) ==
    /\ Len(buf) = 2
    /\ buf[1].part = "head"
    /\ buf[2].part = "tail"
    /\ buf[1].doc = buf[2].doc

Decode(buf) == buf[1].doc

\* The non-empty prefixes a recv may return.
Chunks(stream) == { SubSeq(stream, 1, n) : n \in 1..Len(stream) }

Drop(stream, n) == SubSeq(stream, n + 1, Len(stream))

\* --------------------------------------------------------- the host graph

\* getattr(node, name) on the host namespace; "undef" raises AttributeError.
Member(node, name) ==
    IF node = "Gimp" /\ name = "flush" THEN "fn_flush"
    ELSE IF node = "Gimp" /\ name = "boom" THEN "fn_boom"
    ELSE IF node = "Gimp" /\ name = "Image" THEN "Image"
    ELSE IF node = "Image" /\ name = "list" THEN "fn_list"
    ELSE IF node = "Gimp" /\ name = "item" THEN "fn_item"
    ELSE "undef"

IsCallable(node) == node \in {"fn_flush", "fn_boom", "fn_list", "fn_item"}

\* The walk: one lookup per segment; stops at the first undefined segment.
RECURSIVE Walk(_, _)
Walk(node, segs) ==
    IF segs = <<>> THEN [ok |-> TRUE, node |-> node, seg |-> ""]
    ELSE LET next == Member(node, Head(segs))
         IN IF next = "undef"
            THEN [ok |-> FALSE, node |-> node, seg |-> Head(segs)]
            ELSE Walk(next, Tail(segs))

\* What the controllers and raw peers ask for.
Paths == { <<"Gimp", "flush">>, <<"Gimp", "boom">>, <<"boom">>, <<"Image", "list">> }

\* A path one of whose names holds a multi-byte character.  Only a raw peer
\* puts one on the wire as such: the controllers' json.dumps escapes it.
WidePaths == { <<"Gimp", "wide">> }

\* What a raw peer asks for: a path both listeners can resolve no further
\* than the controllers' paths show, or one with a multi-byte character.
RawPaths == { <<"boom">> } \cup WidePaths

\* Paths to a callable whose result exposes an id that json.dumps cannot
\* encode.
ItemPaths == { <<"Gimp", "item">>, <<"item">> }

\* Paths to a value that is not callable.
ValuePaths == { <<"Gimp", "Image">>, <<"Image">> }

Command(p) == [type |-> "call_api", params |-> [api_path |-> p]]

\* buffer.decode('utf-8'): the head of a document with a multi-byte
\* character ends inside that character, and does not decode without its
\* tail.
Utf8Valid(buf) ==
    \/ buf = <<>>
    \/ LET last == buf[Len(buf)]
       IN ~(last.part = "head" /\ last.doc.params.api_path \in WidePaths)

Commands == { Command(p) : p \in Paths }

\* json.dumps can encode the Response for what the walk reached.
Encodable(w) == ~(w.ok /\ w.node = "fn_item")

\* The result of a call or an attribute read, then its wire form.
ExecResolved(w) ==
    IF ~w.ok THEN [raised |-> TRUE, called |-> FALSE, text |-> w.seg]
    ELSE IF w.node = "fn_boom" THEN [raised |-> TRUE, called |-> TRUE, text |-> "boom"]
    ELSE IF IsCallable(w.node) THEN [raised |-> FALSE, called |-> TRUE, text |-> "None"]
    ELSE [raised |-> FALSE, called |-> FALSE, text |-> w.node]

\* gimp-mcp-plugin.py execute_command: skips the root segment, calls only a
\* callable, and answers failures under the key "error".
PluginExecute(request) ==
    LET w == Walk("Gimp", Tail(request.params.api_path))
        r == ExecResolved(w)
    IN [called |-> r.called,
        failed |-> r.raised,
        target |-> IF w.ok THEN w.node ELSE "undef",
        encodable |-> Encodable(w),
        response |-> IF r.raised
                     THEN [status |-> "error", error |-> r.text]
                     ELSE [status |-> "success", result |-> r.text]]

\* gimp-mcp-server.py execute_command: walks every segment from the root,
\* calls the final value whatever it is, answers failures under "message".
ServerExecute(command) ==
    LET w == Walk("Gimp", command.params.api_path)
        r == ExecResolved(w)
        notCallable == w.ok /\ ~IsCallable(w.node)
    IN IF command.type # "call_api"
       THEN [called |-> FALSE,
             failed |-> TRUE,
             target |-> "undef",
             encodable |-> TRUE,
             response |-> [status |-> "error", message |-> "Unknown command"]]
       ELSE [called |-> r.called,
             failed |-> r.raised \/ notCallable,
             target |-> IF w.ok THEN w.node ELSE "undef",
             encodable |-> Encodable(w),
             response |-> IF r.raised \/ notCallable
                          THEN [status |-> "error", message |-> r.text]
                          ELSE [status |-> "success", result |-> r.text]]

\* ------------------------------------- argument handling and serialization

\* Longest list of positional arguments in a sample.
MaxArgs == 2

\* A positional argument of the request; the context object for an image
\* id, as Gimp.Image.get_by_id gives it; Python's None.
Arg == [t |-> "arg", id |-> 0]

Ctx(n) == [t |-> "ctx", id |-> n]

None == [t |-> "none", id |-> 0]

ImageIds == {0, 7}

\* kwargs of a request: with or without image_id, with or without another key.
Kwargs ==
    { [radius |-> 3] } \cup { <<>> }
    \cup { [image_id |-> n] : n \in ImageIds }
    \cup { [image_id |-> n, radius |-> 3] : n \in ImageIds }

\* Parameter names of a target, as inspect.signature lists them.
Signatures == { <<"image", "radius">>, <<"radius", "image">>, <<"radius">> }

\* Values a target may return: v is str(value), attrs the attribute names
\* hasattr finds among "id" and "ID", n the identity they hold.
Value(t, v, attrs, n) == [t |-> t, v |-> v, attrs |-> attrs, n |-> n]

Scalars == { Value("null", "None", {}, ""), Value("bool", "True", {}, ""),
             Value("bool", "False", {}, ""), Value("int", "42", {}, ""),
             Value("str", "text", {}, "") }

Objects == { Value("obj", "<Gimp.Image>", {"id"}, "5"),
             Value("obj", "<Gimp.Layer>", {"id"}, "5"),
             Value("obj", "<Gimp.Image>", {"ID"}, "5"),
             Value("obj", "<Gimp.Image>", {"id", "ID"}, "5"),
             Value("obj", "<Gimp.Display>", {}, "") }

\* {"id": n} and str(x) as JSON values.
Handle(n) == Value("handle", "", {}, n)

Str(x) == Value("str", x.v, {}, "")

\* gimp-mcp-plugin.py execute_command, lines 153-159 (lists apart).
PluginSerialize(x) == IF "id" \in x.attrs THEN Handle(x.n) ELSE Str(x)

\* gimp-mcp-server.py execute_command, lines 104-110 (lists apart).
ServerSerialize(x) == IF "ID" \in x.attrs THEN Handle(x.n) ELSE Str(x)

\* obj.__class__.__name__ of a host object.
ClassName(x) ==
    IF x.v = "<Gimp.Image>" THEN "Image"
    ELSE IF x.v = "<Gimp.Layer>" THEN "Layer"
    ELSE IF x.v = "<Gimp.Display>" THEN "Display"
    ELSE x.t

\* {"id": n, "type": name}.
TypedHandle(n, name) == Value("handle", name, {}, n)

\* gimp-mcp-plugin.py serialize_gimp_object: an Image gives its id, as
\* Gimp.Image.get_id returns it, and its class name; anything else its str().
PluginSerializeItem(x) ==
    IF ClassName(x) = "Image" THEN TypedHandle(x.n, "Image") ELSE Str(x)

\* gimp-mcp-server.py serialize_gimp_object.
ServerSerializeItem(x) ==
    IF "ID" \in x.attrs THEN TypedHandle(x.n, ClassName(x)) ELSE Str(x)

\* The list branch of either execute_command: one item after the other.
PluginSerializeList(items) == [i \in DOMAIN items |-> PluginSerializeItem(items[i])]

ServerSerializeList(items) == [i \in DOMAIN items |-> ServerSerializeItem(items[i])]

\* Longest list a target returns in a sample.
MaxItems == 2

\* The lists the list branch is applied to.
ListSamples ==
    { [items |-> l] : l \in UNION { [1..n -> Scalars \cup Objects] : n \in 0..MaxItems } }

\* kwargs.get('image_id') is truthy.
HasImageId(kwargs) == "image_id" \in DOMAIN kwargs /\ kwargs.image_id # 0

Without(kwargs, key) == [x \in DOMAIN kwargs \ {key} |-> kwargs[x]]

\* gimp-mcp-plugin.py execute_command, lines 133-149: what the target is
\* called with, or that args[0] = image raised IndexError before the call.
InjectContext(args, kwargs, params) ==
    LET image == IF HasImageId(kwargs) THEN Ctx(kwargs.image_id) ELSE None
        kw    == IF HasImageId(kwargs) THEN Without(kwargs, "image_id") ELSE kwargs
        declares == \E i \in DOMAIN params : params[i] = "image"
    IN IF declares /\ args = <<>>
       THEN [raised |-> TRUE, args |-> args, kwargs |-> kw]
       ELSE [raised |-> FALSE,
             args |-> IF declares THEN [args EXCEPT ![1] = image] ELSE args,
             kwargs |-> kw]

\* The samples the helpers are applied to.
Samples ==
    { [args |-> [i \in 1..n |-> Arg], kwargs |-> kw, params |-> sig, value |-> x] :
        n \in 0..MaxArgs, kw \in Kwargs, sig \in Signatures, x \in Scalars \cup Objects }

\* ------------------------------------------------------- the JSON documents

\* Python values a message is made of: t is the type, s what str() gives
\* for a scalar; a list keeps its items in order, a dict maps keys to values.
PyNone == [t |-> "NoneType", s |-> "None"]

PyBool(b) == [t |-> "bool", s |-> IF b THEN "True" ELSE "False"]

PyInt(s) == [t |-> "int", s |-> s]

PyStr(s) == [t |-> "str", s |-> s]

PyList(items) == [t |-> "list", items |-> items]

PyDict(f) == [t |-> "dict", map |-> f]

\* One token of JSON text.
Tok(k, s) == [k |-> k, s |-> s]

\* A scalar written with str(), as the serializer's fallback writes values.
LiteralStr(v) == Tok("lit", v.s)

\* json.dumps on a scalar other than a string: null, true, false, digits.
Literal(v) ==
    Tok("lit", IF v.t = "NoneType" THEN "null"
               ELSE IF v.t = "bool" THEN (IF v.s = "True" THEN "true" ELSE "false")
               ELSE v.s)

\* json.dumps on a string (ensure_ascii): a character outside ASCII is
\* written as an escape; json.loads reads the escape back.
Escape(s) == IF s = "Gimp.café" THEN "Gimp.caf\\u00e9" ELSE s

Unescape(s) == IF s = "Gimp.caf\\u00e9" THEN "Gimp.café" ELSE s

RECURSIVE Dumps(_), DumpItems(_), DumpMembers(_)
\* json.dumps(m), as tokens.
Dumps(v) ==
    IF v.t = "str" THEN << Tok("string", Escape(v.s)) >>
    ELSE IF v.t = "list" THEN << Tok("[", "") >> \o DumpItems(v.items) \o << Tok("]", "") >>
    ELSE IF v.t = "dict" THEN << Tok("{", "") >> \o DumpMembers(v.map) \o << Tok("}", "") >>
    ELSE << Literal(v) >>

DumpItems(items) ==
    IF items = <<>> THEN <<>>
    ELSE IF Len(items) = 1 THEN Dumps(items[1])
    ELSE Dumps(items[1]) \o << Tok(",", "") >> \o DumpItems(Tail(items))

DumpMembers(f) ==
    IF DOMAIN f = {} THEN <<>>
    ELSE LET key  == CHOOSE x \in DOMAIN f : TRUE
             rest == [x \in DOMAIN f \ {key} |-> f[x]]
             one  == << Tok("string", Escape(key)), Tok(":", "") >> \o Dumps(f[key])
         IN IF DOMAIN rest = {} THEN one
            ELSE one \o << Tok(",", "") >> \o DumpMembers(rest)

\* json.loads raised.
ParseFail == [ok |-> FALSE, val |-> PyNone, rest |-> <<>>]

Parsed(v, rest) == [ok |-> TRUE, val |-> v, rest |-> rest]

Digits == {"1", "2", "3", "5", "7", "42"}

RECURSIVE ParseValue(_), ParseItems(_, _), ParseMembers(_, _)
\* json.loads: one value off the front of the text.
ParseValue(toks) ==
    IF toks = <<>> THEN ParseFail
    ELSE LET h == Head(toks)
         IN IF h.k = "string" THEN Parsed(PyStr(Unescape(h.s)), Tail(toks))
            ELSE IF h.k = "lit"
                 THEN IF h.s = "null" THEN Parsed(PyNone, Tail(toks))
                      ELSE IF h.s = "true" THEN Parsed(PyBool(TRUE), Tail(toks))
                      ELSE IF h.s = "false" THEN Parsed(PyBool(FALSE), Tail(toks))
                      ELSE IF h.s \in Digits THEN Parsed(PyInt(h.s), Tail(toks))
                      ELSE ParseFail
            ELSE IF h.k = "[" THEN ParseItems(Tail(toks), <<>>)
            ELSE IF h.k = "{" THEN ParseMembers(Tail(toks), <<>>)
            ELSE ParseFail

\* The items of an array, acc those read so far.
ParseItems(toks, acc) ==
    IF toks = <<>> THEN ParseFail
    ELSE IF Head(toks).k = "]" /\ acc = <<>> THEN Parsed(PyList(acc), Tail(toks))
    ELSE LET r == ParseValue(toks)
         IN IF ~r.ok \/ r.rest = <<>> THEN ParseFail
            ELSE IF Head(r.rest).k = "]"
                 THEN Parsed(PyList(Append(acc, r.val)), Tail(r.rest))
            ELSE IF Head(r.rest).k = ","
                 THEN ParseItems(Tail(r.rest), Append(acc, r.val))
            ELSE ParseFail

\* The members of an object; a key read twice keeps its last value.
ParseMembers(toks, acc) ==
    IF toks = <<>> THEN ParseFail
    ELSE IF Head(toks).k = "}" /\ DOMAIN acc = {} THEN Parsed(PyDict(acc), Tail(toks))
    ELSE IF Len(toks) < 3 \/ toks[1].k # "string" \/ toks[2].k # ":" THEN ParseFail
    ELSE LET key == Unescape(toks[1].s)
             r   == ParseValue(SubSeq(toks, 3, Len(toks)))
             now == [x \in DOMAIN acc \cup {key} |-> IF x = key THEN r.val ELSE acc[x]]
         IN IF ~r.ok \/ r.rest = <<>> THEN ParseFail
            ELSE IF Head(r.rest).k = "}" THEN Parsed(PyDict(now), Tail(r.rest))
            ELSE IF Head(r.rest).k = "," THEN ParseMembers(Tail(r.rest), now)
            ELSE ParseFail

\* json.loads(text): the whole text is one value, or it raises.
Loads(toks) ==
    LET r == ParseValue(toks)
    IN IF r.ok /\ r.rest = <<>> THEN [ok |-> TRUE, val |-> r.val]
       ELSE [ok |-> FALSE, val |-> PyNone]

\* send_command's command for call_api's params.
Request(p, args, kwargs) ==
    PyDict([type |-> PyStr("call_api"),
            params |-> PyDict([api_path |-> PyStr(p),
                               args |-> PyList(args),
                               kwargs |-> PyDict(kwargs)])])

\* Positional arguments the tools pass.
ArgValues == { PyInt("1"), PyInt("2"), PyStr("plug-in-gauss"), PyNone, PyBool(TRUE) }

ArgLists == UNION { [1..n -> ArgValues] : n \in 0..MaxArgs }

KwargMaps == { <<>>, [x |-> PyInt("3")], [image_id |-> PyInt("7"), a |-> PyInt("1")] }

Requests ==
    { Request(p, args, kw) :
        p \in {"Gimp.flush", "Gimp.café"}, args \in ArgLists, kw \in KwargMaps }

\* What execute_command of the plugin variant returns.
Responses ==
    { PyDict([status |-> PyStr("success"), result |-> r]) :
        r \in { PyStr("None"), PyStr("42"),
                PyDict([id |-> PyInt("5")]),
                PyList(<<>>),
                PyList(<< PyDict([id |-> PyInt("5"), type |-> PyStr("Image")]),
                          PyStr("<Gimp.Layer>") >>) } }
    \cup { PyDict([status |-> PyStr("error"), error |-> PyStr(e),
                   traceback |-> PyStr("Traceback")]) :
             e \in {"boom", "list assignment index out of range"} }

\* ------------------------------------------------------------------- Init

NoRet == [client |-> "", conn |-> 0, cause |-> "", data |-> <<>>,
          kind |-> "none", text |-> ""]

NoSock == [kind |-> "None", id |-> 0]

\* Nothing has run yet: no listener, no connection, no call.
Quiet ==
    /\ running = FALSE
    /\ lsock = "none"
    /\ report = "none"
    /\ rebinds = 0
    /\ cend = [k \in ConnIds |-> "unused"]
    /\ send = [k \in ConnIds |-> "none"]
    /\ c2s = [k \in ConnIds |-> <<>>]
    /\ s2c = [k \in ConnIds |-> <<>>]
    /\ hpc = [k \in ConnIds |-> "none"]
    /\ sbuf = [k \in ConnIds |-> <<>>]
    /\ hreq = [k \in ConnIds |-> <<>>]
    /\ idleq = <<>>
    /\ mainExec = <<>>
    /\ hostBusy = FALSE
    /\ decoded = [k \in ConnIds |-> 0]
    /\ invoked = [k \in ConnIds |-> 0]
    /\ nReplies = [k \in ConnIds |-> 0]
    /\ fate = [k \in ConnIds |-> <<>>]
    /\ pc = [c \in Clients |-> "idle"]
    /\ sock = [c \in Clients |-> NoSock]
    /\ gconn = [c \in Clients |-> FALSE]
    /\ timer = [c \in Clients |-> FALSE]
    /\ creq = [c \in Clients |-> <<>>]
    /\ rbuf = [c \in Clients |-> <<>>]
    /\ ret = NoRet
    /\ nConnects = [c \in Clients |-> 0]
    /\ nSends = [c \in Clients |-> 0]

Init ==
    /\ listener \in ListenerVariants
    /\ controller \in ControllerVariants
    /\ path \in Paths \cup WidePaths
    /\ path \in WidePaths => controller = "raw"
    /\ controller = "raw" => path \in RawPaths
    /\ listener = "other" => controller # "raw" /\ path = <<"Gimp", "flush">>
    /\ Quiet
    /\ sample = <<>>
    /\ outcome = <<>>

\* --------------------------------------------------------------- listener

Bump(f, k) == [f EXCEPT ![k] = @ + 1]

\* run / start_server up to the accept loop: socket, bind, listen.  The
\* plugin variant's run stays in its accept loop; the server variant's run
\* has started the thread and returned SUCCESS.
Run ==
    /\ ~running
    /\ lsock = "none"
    /\ running' = TRUE
    /\ lsock' = "listening"
    /\ report' = IF listener = "server" THEN "success" ELSE "none"
    /\ UNCHANGED <<listener, controller, path, rebinds, pure, wire, hvars, hist, cvars>>

\* bind or listen raises.  The plugin variant's run catches it, sets running
\* False, closes the socket and returns SUCCESS; the server variant's run has
\* returned SUCCESS already and start_server's thread dies with the
\* exception.
RunFail ==
    /\ listener \in {"plugin", "server"}
    /\ ~running
    /\ lsock = "none"
    /\ running' = FALSE
    /\ lsock' = "none"
    /\ report' = "success"
    /\ UNCHANGED <<listener, controller, path, rebinds, pure, wire, hvars, hist, cvars>>

\* Most binds a run makes while a listener is running.
MaxRebinds == 2

\* run is invoked while a listener is running.  The plugin variant's run
\* sees self.running and returns SUCCESS; the server variant's run starts
\* another start_server thread, which creates a socket and binds it (whether
\* that bind succeeds is the platform's matter), and returns SUCCESS.
RunAgain ==
    /\ listener \in {"plugin", "server"}
    /\ running
    /\ lsock = "listening"
    /\ rebinds < MaxRebinds
    /\ rebinds' = IF listener = "server" THEN rebinds + 1 ELSE rebinds
    /\ report' = "success"
    /\ UNCHANGED <<listener, controller, path, running, lsock, pure, wire, hvars, hist,
                   cvars>>

\* accept() returns a connection: a handler thread is started for it.
Accept(k) ==
    /\ running
    /\ lsock = "listening"
    /\ send[k] = "backlog"
    /\ send' = [send EXCEPT ![k] = "open"]
    /\ hpc' = [hpc EXCEPT ![k] = "recv"]
    /\ UNCHANGED <<lvars, pure, cend, c2s, s2c, sbuf, hreq, idleq, mainExec, hostBusy,
                   hist, cvars>>

\* A failure of accept() after which the listening socket is left as it was.
AcceptFailKeepsSocket ==
    /\ running
    /\ lsock = "listening"
    /\ running' = FALSE
    /\ lsock' = lsock
    /\ report' = IF listener = "other" THEN report ELSE "success"
    /\ send' = send
    /\ UNCHANGED <<listener, controller, path, rebinds, pure, cend, c2s, s2c, hvars, hist, cvars>>

\* accept() raises: the plugin's handler sets running False and closes the
\* listening socket; start_server breaks out of its loop and closes it.
\* Connections still in the backlog are reset.
AcceptFail ==
    /\ running
    /\ lsock = "listening"
    /\ running' = FALSE
    /\ lsock' = "none"
    /\ report' = IF listener = "other" THEN report ELSE "success"
    /\ send' = [k \in ConnIds |-> IF send[k] = "backlog" THEN "closed" ELSE send[k]]
    /\ UNCHANGED <<listener, controller, path, rebinds, pure, cend, c2s, s2c, hvars, hist, cvars>>

\* Bytes as they travel on connection k.
OnConn(bytes, k) ==
    [i \in DOMAIN bytes |-> [doc |-> bytes[i].doc, part |-> bytes[i].part, conn |-> k]]

\* The bytes a write on connection k adds to the stream towards the
\* controller; they are discarded when the controller's end is closed, and
\* not tracked for a raw peer, which never looks at them.
Deliver(k, m) ==
    [s2c EXCEPT ![k] = IF cend[k] = "open" /\ controller # "raw"
                       THEN @ \o OnConn(Encode(m), k) ELSE @]

\* _handle_client answering bytes that do not decode with an error Response.
PlgRecvAnswersUndecoded(k) ==
    /\ listener = "plugin"
    /\ hpc[k] = "recv"
    /\ send[k] = "open"
    /\ \E chunk \in Chunks(c2s[k]) :
          /\ c2s' = [c2s EXCEPT ![k] = Drop(@, Len(chunk))]
          /\ IF Decodes(chunk)
             THEN /\ hpc' = [hpc EXCEPT ![k] = "exec"]
                  /\ hreq' = [hreq EXCEPT ![k] = Decode(chunk)]
                  /\ decoded' = Bump(decoded, k)
                  /\ UNCHANGED <<send, nReplies>>
             ELSE /\ hpc' = [hpc EXCEPT ![k] = "done"]
                  /\ send' = [send EXCEPT ![k] = "closed"]
                  /\ nReplies' = Bump(nReplies, k)
                  /\ UNCHANGED <<hreq, decoded>>
    /\ UNCHANGED <<lvars, pure, cend, s2c, sbuf, idleq, mainExec, hostBusy,
                   invoked, fate, cvars>>

\* _handle_client run on the accepting thread instead of a thread of its
\* own: a failed decode raises into run, whose except stops the listener.
PlgRecvOnAcceptThread(k) ==
    /\ listener = "plugin"
    /\ hpc[k] = "recv"
    /\ send[k] = "open"
    /\ \/ \E chunk \in Chunks(c2s[k]) :
             /\ c2s' = [c2s EXCEPT ![k] = Drop(@, Len(chunk))]
             /\ IF Decodes(chunk)
                THEN /\ hpc' = [hpc EXCEPT ![k] = "exec"]
                     /\ hreq' = [hreq EXCEPT ![k] = Decode(chunk)]
                     /\ decoded' = Bump(decoded, k)
                     /\ UNCHANGED <<send, running, lsock>>
                ELSE /\ hpc' = [hpc EXCEPT ![k] = "done"]
                     /\ send' = [send EXCEPT ![k] = "closed"]
                     /\ running' = FALSE
                     /\ lsock' = "none"
                     /\ UNCHANGED <<hreq, decoded>>
       \/ /\ c2s[k] = <<>>
          /\ cend[k] = "closed"
          /\ hpc' = [hpc EXCEPT ![k] = "done"]
          /\ send' = [send EXCEPT ![k] = "closed"]
          /\ running' = FALSE
          /\ lsock' = "none"
          /\ UNCHANGED <<c2s, hreq, decoded>>
    /\ UNCHANGED <<listener, controller, path, report, rebinds, pure, cend, s2c, sbuf, idleq,
                   mainExec, hostBusy, invoked, nReplies, fate, cvars>>

\* gimp-mcp-plugin.py _handle_client, up to the call of execute_command: one
\* recv, one decode.  A failed decode raises out of the thread, whose socket
\* is dropped.
PlgRecv(k) ==
    /\ listener = "plugin"
    /\ hpc[k] = "recv"
    /\ send[k] = "open"
    /\ \/ \E chunk \in Chunks(c2s[k]) :
             /\ c2s' = [c2s EXCEPT ![k] = Drop(@, Len(chunk))]
             /\ IF Decodes(chunk)
                THEN /\ hpc' = [hpc EXCEPT ![k] = "exec"]
                     /\ hreq' = [hreq EXCEPT ![k] = Decode(chunk)]
                     /\ decoded' = Bump(decoded, k)
                     /\ send' = send
                ELSE /\ hpc' = [hpc EXCEPT ![k] = "done"]
                     /\ send' = [send EXCEPT ![k] = "closed"]
                     /\ UNCHANGED <<hreq, decoded>>
       \/ /\ c2s[k] = <<>>
          /\ cend[k] = "closed"
          /\ hpc' = [hpc EXCEPT ![k] = "done"]
          /\ send' = [send EXCEPT ![k] = "closed"]
          /\ UNCHANGED <<c2s, hreq, decoded>>
    /\ UNCHANGED <<lvars, pure, cend, s2c, sbuf, idleq, mainExec, hostBusy,
                   invoked, nReplies, fate, cvars>>

\* What is kept of an execution e: whether it failed, what it resolved and
\* answered, and what was written.
Fate(e, wrote) ==
    [failed |-> e.failed, called |-> e.called, target |-> e.target,
     response |-> e.response, wrote |-> wrote]

\* gimp-mcp-plugin.py: execute_command returns on the handler's own thread,
\* the response is sent and the client socket closed.  When json.dumps
\* raises on the response nothing is sent: the exception ends the thread,
\* whose socket is dropped.
PlgFinish(k) ==
    /\ listener = "plugin"
    /\ hpc[k] = "exec"
    /\ LET e == PluginExecute(hreq[k])
       IN /\ invoked' = IF e.called THEN Bump(invoked, k) ELSE invoked
          /\ IF e.encodable
             THEN /\ s2c' = Deliver(k, e.response)
                  /\ nReplies' = Bump(nReplies, k)
                  /\ fate' = [fate EXCEPT ![k] =
                                Append(@, Fate(e, e.response.status))]
             ELSE /\ fate' = [fate EXCEPT ![k] =
                                Append(@, Fate(e, "unencodable"))]
                  /\ UNCHANGED <<s2c, nReplies>>
    /\ send' = [send EXCEPT ![k] = "closed"]
    /\ hpc' = [hpc EXCEPT ![k] = "done"]
    /\ hreq' = [hreq EXCEPT ![k] = <<>>]
    /\ c2s' = [c2s EXCEPT ![k] = <<>>]
    /\ UNCHANGED <<lvars, pure, cend, sbuf, idleq, mainExec, hostBusy,
                   decoded, cvars>>

\* gimp-mcp-server.py handle_client: one turn of the receive loop.  Bytes are
\* accumulated; a buffer that decodes is posted with GLib.idle_add and the
\* loop goes on reading; an empty read ends the loop and closes the socket,
\* and so does a buffer that is not valid UTF-8 (UnicodeDecodeError is not a
\* JSONDecodeError and reaches the outer except).
SrvRecv(k) ==
    /\ listener = "server"
    /\ hpc[k] = "recv"
    /\ send[k] = "open"
    /\ \/ \E chunk \in Chunks(c2s[k]) :
             LET buf == sbuf[k] \o chunk
             IN /\ c2s' = [c2s EXCEPT ![k] = Drop(@, Len(chunk))]
                /\ IF ~Utf8Valid(buf)
                   THEN /\ sbuf' = [sbuf EXCEPT ![k] = buf]
                        /\ hpc' = [hpc EXCEPT ![k] = "done"]
                        /\ send' = [send EXCEPT ![k] = "closed"]
                        /\ UNCHANGED <<idleq, decoded>>
                   ELSE IF Decodes(buf)
                   THEN /\ sbuf' = [sbuf EXCEPT ![k] = <<>>]
                        /\ idleq' = Append(idleq, [conn |-> k, command |-> Decode(buf)])
                        /\ decoded' = Bump(decoded, k)
                        /\ UNCHANGED <<hpc, send>>
                   ELSE /\ sbuf' = [sbuf EXCEPT ![k] = buf]
                        /\ UNCHANGED <<idleq, decoded, hpc, send>>
       \/ /\ c2s[k] = <<>>
          /\ cend[k] = "closed"
          /\ hpc' = [hpc EXCEPT ![k] = "done"]
          /\ send' = [send EXCEPT ![k] = "closed"]
          /\ UNCHANGED <<c2s, sbuf, idleq, decoded>>
    /\ UNCHANGED <<lvars, pure, cend, s2c, hreq, mainExec, hostBusy,
                   invoked, nReplies, fate, cvars>>

\* The host's main loop, when idle, takes the next posted unit of work and
\* enters execute_command.
IdleBegin ==
    /\ listener = "server"
    /\ mainExec = <<>>
    /\ ~hostBusy
    /\ idleq # <<>>
    /\ mainExec' = Head(idleq)
    /\ idleq' = Tail(idleq)
    /\ UNCHANGED <<lvars, pure, wire, hpc, sbuf, hreq, hostBusy, hist, cvars>>

\* execute_command given up when the controller has closed its connection:
\* the unit of work is dropped without resolving or invoking anything.
IdleEndCancels ==
    /\ listener = "server"
    /\ mainExec # <<>>
    /\ LET k == mainExec.conn
           e == ServerExecute(mainExec.command)
       IN IF cend[k] = "closed"
          THEN UNCHANGED <<invoked, s2c, nReplies, fate>>
          ELSE /\ invoked' = IF e.called THEN Bump(invoked, k) ELSE invoked
               /\ IF send[k] = "open" /\ e.encodable
                  THEN /\ s2c' = Deliver(k, e.response)
                       /\ nReplies' = Bump(nReplies, k)
                       /\ fate' = [fate EXCEPT ![k] =
                                     Append(@, Fate(e, e.response.status))]
                  ELSE /\ fate' = [fate EXCEPT ![k] =
                                     Append(@, Fate(e, IF e.encodable THEN "lost"
                                                       ELSE "unencodable"))]
                       /\ UNCHANGED <<s2c, nReplies>>
    /\ mainExec' = <<>>
    /\ UNCHANGED <<lvars, pure, cend, send, c2s, hpc, sbuf, hreq, idleq, hostBusy,
                   decoded, cvars>>

\* gimp-mcp-server.py execute_command returns: the response is written on
\* the client socket it was given.  If handle_client has closed that socket
\* meanwhile, sendall raises into the main loop and nothing is written; and
\* so does json.dumps, before it, on a response it cannot encode.
IdleEnd ==
    /\ listener = "server"
    /\ mainExec # <<>>
    /\ LET k == mainExec.conn
           e == ServerExecute(mainExec.command)
       IN /\ invoked' = IF e.called THEN Bump(invoked, k) ELSE invoked
          /\ IF send[k] = "open" /\ e.encodable
             THEN /\ s2c' = Deliver(k, e.response)
                  /\ nReplies' = Bump(nReplies, k)
                  /\ fate' = [fate EXCEPT ![k] =
                                Append(@, Fate(e, e.response.status))]
             ELSE /\ fate' = [fate EXCEPT ![k] =
                                Append(@, Fate(e, IF e.encodable THEN "lost"
                                                  ELSE "unencodable"))]
                  /\ UNCHANGED <<s2c, nReplies>>
    /\ mainExec' = <<>>
    /\ UNCHANGED <<lvars, pure, cend, send, c2s, hpc, sbuf, hreq, idleq, hostBusy,
                   decoded, cvars>>

\* The host's main loop processes an event of its own while posted work
\* waits (server variant: the plugin variant's run never returns to the main
\* loop while it serves; an event with no work waiting touches nothing here).
HostEventBegin ==
    /\ listener = "server"
    /\ mainExec = <<>>
    /\ ~hostBusy
    /\ idleq # <<>>
    /\ hostBusy' = TRUE
    /\ UNCHANGED <<lvars, pure, wire, hpc, sbuf, hreq, idleq, mainExec, hist, cvars>>

HostEventEnd ==
    /\ hostBusy
    /\ hostBusy' = FALSE
    /\ UNCHANGED <<lvars, pure, wire, hpc, sbuf, hreq, idleq, mainExec, hist, cvars>>

\* What another process on the port may answer with: well-formed and
\* ill-formed Responses.
Shapes == { [status |-> "success", result |-> "None"],
            [result |-> "None"],
            [status |-> "success"] }

\* Its bytes: a whole document, or one cut short.
OtherBytes == { Encode(m) : m \in Shapes } \cup { SubSeq(Encode([status |-> "success"]), 1, 1) }

\* Another process on the port writes once to a connection it accepted,
OtherReply(k, bytes) ==
    /\ listener = "other"
    /\ hpc[k] = "recv"
    /\ send[k] = "open"
    /\ nReplies[k] = 0
    /\ s2c' = [s2c EXCEPT ![k] = IF cend[k] = "open" THEN @ \o OnConn(bytes, k) ELSE @]
    /\ nReplies' = Bump(nReplies, k)
    /\ UNCHANGED <<lvars, pure, cend, send, c2s, hvars, decoded, invoked, fate, cvars>>

\* or closes it, or does neither.
OtherClose(k) ==
    /\ listener = "other"
    /\ hpc[k] = "recv"
    /\ send[k] = "open"
    /\ send' = [send EXCEPT ![k] = "closed"]
    /\ hpc' = [hpc EXCEPT ![k] = "done"]
    /\ UNCHANGED <<lvars, pure, cend, c2s, s2c, sbuf, hreq, idleq, mainExec, hostBusy,
                   hist, cvars>>

\* ------------------------------------------------------------- controller

ConnSock(k) == [kind |-> "conn", id |-> k]

\* A socket object whose connect failed and which was never closed.
UnconnectedSock == [kind |-> "unconnected", id |-> 0]

HasFree == \E k \in ConnIds : cend[k] = "unused"

FreeConn == CHOOSE k \in ConnIds :
                /\ cend[k] = "unused"
                /\ \A j \in ConnIds : cend[j] = "unused" => k <= j

\* call_api's "except Exception as e: return f"Error: {e}"".
Err(cause, text) == [cause |-> cause, kind |-> "Error:", text |-> text]

\* The record of a return: r is the string, data the bytes the call had
\* accumulated when it ended.
Returned(c, r, data) ==
    [client |-> c, conn |-> sock[c].id, cause |-> r.cause, data |-> data,
     kind |-> r.kind, text |-> r.text]

\* call_api reading the response with defaults instead of subscripts.
CallApiResultLenient(result) ==
    IF "status" \in DOMAIN result /\ result.status = "error"
    THEN Err("decoded", IF "error" \in DOMAIN result THEN result.error ELSE "null")
    ELSE [cause |-> "decoded", kind |-> "json",
          text |-> IF "result" \in DOMAIN result THEN result.result ELSE "null"]

\* call_api, lines 136-139, on the decoded response; a missing key raises
\* KeyError inside the try, which the except turns into an error string.
CallApiResult(result) ==
    IF "status" \notin DOMAIN result THEN Err("decoded", "'status'")
    ELSE IF result.status = "success"
         THEN IF "result" \in DOMAIN result
              THEN [cause |-> "decoded", kind |-> "json", text |-> result.result]
              ELSE Err("decoded", "'result'")
         ELSE IF "error" \in DOMAIN result
              THEN Err("decoded", result.error)
              ELSE Err("decoded", "'error'")

\* call_api is entered with the run's path and builds its command.
Enter(c) ==
    /\ pc' = [pc EXCEPT ![c] = "send"]
    /\ creq' = [creq EXCEPT ![c] = Command(path)]
    /\ ret' = ret

\* call_api returns r to the tool's caller; its locals are gone.
Return(c, r, data) ==
    /\ ret' = Returned(c, r, data)
    /\ pc' = [pc EXCEPT ![c] = "idle"]
    /\ creq' = [creq EXCEPT ![c] = <<>>]
    /\ rbuf' = [rbuf EXCEPT ![c] = <<>>]
    /\ nConnects' = [nConnects EXCEPT ![c] = 0]
    /\ nSends' = [nSends EXCEPT ![c] = 0]

\* socket.connect succeeds: the connection waits in the listener's backlog.
Connected(c, k, armed) ==
    /\ sock' = [sock EXCEPT ![c] = ConnSock(k)]
    /\ timer' = [timer EXCEPT ![c] = armed]
    /\ cend' = [cend EXCEPT ![k] = "open"]
    /\ send' = [send EXCEPT ![k] = "backlog"]
    /\ nConnects' = Bump(nConnects, c)

\* _close_socket that neither closes nor forgets the socket.
CloseSocketKeepsCached(c) ==
    /\ sock' = sock
    /\ timer' = timer
    /\ cend' = cend

\* _close_socket: shutdown, close, self.sock = None.
CloseSocket(c) ==
    /\ sock' = [sock EXCEPT ![c] = NoSock]
    /\ timer' = [timer EXCEPT ![c] = FALSE]
    /\ cend' = IF sock[c].kind = "conn"
               THEN [cend EXCEPT ![sock[c].id] = "closed"]
               ELSE cend

\* send_command's finally clause, then call_api returns r.
Finish(c, r, data) ==
    /\ CloseSocket(c)
    /\ Return(c, r, data)

\* src/gimp_mcp/server.py call_api up to get_gimp_connection: connect when
\* no socket is cached.  A failed connect closes the socket and raises
\* ConnectionError, which call_api returns as an error string.
NewGetConn(c) ==
    /\ controller = "new"
    /\ pc[c] = "idle"
    /\ gconn' = [gconn EXCEPT ![c] = TRUE]
    /\ \/ /\ IF sock[c] = NoSock
             THEN /\ lsock = "listening"
                  /\ HasFree
                  /\ Connected(c, FreeConn, TRUE)
             ELSE UNCHANGED <<sock, timer, cend, send, nConnects>>
          /\ Enter(c)
          /\ UNCHANGED <<rbuf, nSends>>
       \/ /\ sock[c] = NoSock
          /\ \E why \in { "Connection to GIMP timed out.",
                          "Could not connect to GIMP." } :
                 Return(c, Err("connect", why), <<>>)
          /\ UNCHANGED <<sock, timer, cend, send>>
    /\ UNCHANGED <<lvars, pure, c2s, s2c, hvars, hist>>

\* The bytes a write on connection k adds to the stream towards the
\* listener; they are discarded when the listener's end is closed.
Transmit(k, m) ==
    [c2s EXCEPT ![k] = IF send[k] # "closed" THEN @ \o Encode(m) ELSE @]

\* src/gimp_mcp/server.py send_command, lines 53-64: the socket is there;
\* the command is sent once and the receive timeout armed.
NewSend(c) ==
    /\ controller = "new"
    /\ pc[c] = "send"
    /\ sock[c].kind = "conn"
    /\ c2s' = Transmit(sock[c].id, creq[c])
    /\ nSends' = Bump(nSends, c)
    /\ timer' = [timer EXCEPT ![c] = TRUE]
    /\ rbuf' = [rbuf EXCEPT ![c] = <<>>]
    /\ pc' = [pc EXCEPT ![c] = "recv"]
    /\ UNCHANGED <<lvars, pure, cend, send, s2c, hvars, hist, sock, gconn, creq, ret,
                   nConnects>>

\* src/gimp_mcp/server.py send_command, lines 79-87, after the receive loop
\* has ended on an empty read, and call_api on what it returns or raises.
NewOutcome(data) ==
    IF data = <<>>
    THEN Err("empty", "Error communicating with GIMP: No response data from GIMP (connection closed).")
    ELSE IF Decodes(data)
         THEN CallApiResult(Decode(data))
         ELSE Err("undecodable", "Error communicating with GIMP: Invalid JSON response from GIMP")

\* A receive loop that reads whatever stream has bytes, as on a socket
\* shared between calls.
NewRecvAnyStream(c) ==
    /\ controller = "new"
    /\ pc[c] = "recv"
    /\ \E k \in ConnIds :
          \E chunk \in Chunks(s2c[k]) :
              /\ rbuf' = [rbuf EXCEPT ![c] = @ \o chunk]
              /\ s2c' = [s2c EXCEPT ![k] = Drop(@, Len(chunk))]
    /\ UNCHANGED <<lvars, pure, cend, send, c2s, hvars, hist, pc, sock, gconn, timer,
                   creq, ret, nConnects, nSends>>

\* src/gimp_mcp/server.py send_command, lines 66-77: one turn of the receive
\* loop.  A chunk is accumulated and the loop goes on; only an empty read
\* (the peer closed) ends it.
NewRecv(c) ==
    /\ controller = "new"
    /\ pc[c] = "recv"
    /\ LET k == sock[c].id
       IN \/ \E chunk \in Chunks(s2c[k]) :
               /\ rbuf' = [rbuf EXCEPT ![c] = @ \o chunk]
               /\ s2c' = [s2c EXCEPT ![k] = Drop(@, Len(chunk))]
               /\ UNCHANGED <<pc, sock, timer, cend, ret, creq, nConnects, nSends>>
          \/ /\ s2c[k] = <<>>
             /\ send[k] = "closed"
             /\ Finish(c, NewOutcome(rbuf[c]), rbuf[c])
             /\ s2c' = s2c
    /\ UNCHANGED <<lvars, pure, send, c2s, hvars, hist, gconn>>

\* A receive timeout that leaves the loop as an empty read does.
TimeoutAsEmptyRead ==
    Err("timeout", "Error communicating with GIMP: No response data from GIMP (connection closed).")

\* The error a receive timeout ends the call with.
TimeoutOutcome == Err("timeout", "Error communicating with GIMP: Timeout receiving data from GIMP.")

\* A receive timeout answered by sending the command again.
NewTimeoutResends(c) ==
    /\ controller = "new"
    /\ pc[c] = "recv"
    /\ timer[c]
    /\ nSends[c] < 2
    /\ s2c[sock[c].id] = <<>>
    /\ send[sock[c].id] # "closed"
    /\ c2s' = Transmit(sock[c].id, creq[c])
    /\ nSends' = Bump(nSends, c)
    /\ UNCHANGED <<lvars, pure, cend, send, s2c, hvars, hist, pc, sock, gconn, timer, creq,
                   rbuf, ret, nConnects>>

\* socket.timeout in recv: nothing arrived within the armed timeout.
NewTimeout(c) ==
    /\ controller = "new"
    /\ pc[c] = "recv"
    /\ timer[c]
    /\ s2c[sock[c].id] = <<>>
    /\ send[sock[c].id] # "closed"
    /\ Finish(c, TimeoutOutcome, rbuf[c])
    /\ UNCHANGED <<lvars, pure, send, c2s, s2c, hvars, hist, gconn>>

\* socket.error in recv: the peer's close is seen as a reset.
NewRecvError(c) ==
    /\ controller = "new"
    /\ pc[c] = "recv"
    /\ send[sock[c].id] = "closed"
    /\ Finish(c, Err("reset", "Error communicating with GIMP: Socket error receiving data from GIMP"), rbuf[c])
    /\ s2c' = [s2c EXCEPT ![sock[c].id] = <<>>]
    /\ UNCHANGED <<lvars, pure, send, c2s, hvars, hist, gconn>>

\* server.py connect fails: the socket object stays in self.sock and
\* ConnectionError reaches call_api, which returns it as an error string.
OldConnectFails(c) ==
    /\ sock' = [sock EXCEPT ![c] = UnconnectedSock]
    /\ Return(c, Err("connect", "Could not connect to GIMP. Ensure the MCP Server plugin is running."), <<>>)
    /\ UNCHANGED <<timer, cend, send>>

\* server.py call_api up to get_gimp_connection: only the first call
\* creates the connection object and connects.
OldGetConn(c) ==
    /\ controller = "old"
    /\ pc[c] = "idle"
    /\ gconn' = [gconn EXCEPT ![c] = TRUE]
    /\ \/ /\ IF gconn[c]
             THEN UNCHANGED <<sock, timer, cend, send, nConnects>>
             ELSE /\ lsock = "listening"
                  /\ HasFree
                  /\ Connected(c, FreeConn, FALSE)
          /\ Enter(c)
          /\ UNCHANGED <<rbuf, nSends>>
       \/ /\ ~gconn[c]
          /\ OldConnectFails(c)
    /\ UNCHANGED <<lvars, pure, c2s, s2c, hvars, hist>>

\* server.py send_command, lines 32-36: connect if self.sock is None, then
\* send.  A socket left over from a failed connect is not None: it is used
\* as it is, sendall raises on it, and the except clause sets self.sock to
\* None.
OldSend(c) ==
    /\ controller = "old"
    /\ pc[c] = "send"
    /\ \/ /\ sock[c] = UnconnectedSock
          /\ sock' = [sock EXCEPT ![c] = NoSock]
          /\ Return(c, Err("unconnected", "Error communicating with GIMP: socket is not connected"), <<>>)
          /\ UNCHANGED <<timer, cend, send, c2s>>
       \/ /\ sock[c] = NoSock
          /\ lsock = "listening"
          /\ HasFree
          /\ Connected(c, FreeConn, FALSE)
          /\ c2s' = [c2s EXCEPT ![FreeConn] = Encode(creq[c])]
          /\ nSends' = Bump(nSends, c)
          /\ pc' = [pc EXCEPT ![c] = "recv"]
          /\ UNCHANGED <<creq, rbuf, ret>>
       \/ /\ sock[c] = NoSock
          /\ OldConnectFails(c)
          /\ c2s' = c2s
       \/ /\ sock[c].kind = "conn"
          /\ c2s' = Transmit(sock[c].id, creq[c])
          /\ nSends' = Bump(nSends, c)
          /\ pc' = [pc EXCEPT ![c] = "recv"]
          /\ UNCHANGED <<sock, timer, cend, send, nConnects, creq, rbuf, ret>>
    /\ UNCHANGED <<lvars, pure, s2c, hvars, hist, gconn>>

\* server.py send_command, lines 39-43, and call_api on what it returns or
\* raises: the bytes of the one read are decoded.
OldOutcome(data) ==
    IF Decodes(data)
    THEN CallApiResult(Decode(data))
    ELSE Err(IF data = <<>> THEN "empty" ELSE "undecodable",
             "Error communicating with GIMP: JSONDecodeError")

\* server.py send_command, lines 37-43: one blocking recv with no timeout,
\* self.sock = None (the socket loses its last reference), one decode.
OldRecv(c) ==
    /\ controller = "old"
    /\ pc[c] = "recv"
    /\ LET k == sock[c].id
       IN /\ \/ \E chunk \in Chunks(s2c[k]) : Finish(c, OldOutcome(chunk), chunk)
             \/ /\ s2c[k] = <<>>
                /\ send[k] = "closed"
                /\ Finish(c, OldOutcome(<<>>), <<>>)
          /\ s2c' = [s2c EXCEPT ![k] = <<>>]
    /\ UNCHANGED <<lvars, pure, send, c2s, hvars, hist, gconn>>

\* One raw peer at a time talks to the listener.
RawPeers == {"c1"}

\* Any other TCP peer: it connects,
RawConnect(c) ==
    /\ controller = "raw"
    /\ c \in RawPeers
    /\ pc[c] = "idle"
    /\ lsock = "listening"
    /\ HasFree
    /\ Connected(c, FreeConn, FALSE)
    /\ Enter(c)
    /\ UNCHANGED <<lvars, pure, c2s, s2c, hvars, hist, gconn, rbuf, nSends>>

\* writes a request, or only the start of one,
RawSend(c) ==
    /\ controller = "raw"
    /\ pc[c] = "send"
    /\ \/ c2s' = Transmit(sock[c].id, creq[c])
       \/ c2s' = [c2s EXCEPT ![sock[c].id] =
                     IF send[sock[c].id] # "closed"
                     THEN @ \o SubSeq(Encode(creq[c]), 1, 1) ELSE @]
    /\ nSends' = Bump(nSends, c)
    /\ pc' = [pc EXCEPT ![c] = "recv"]
    /\ UNCHANGED <<lvars, pure, cend, send, s2c, hvars, hist, sock, gconn, timer, creq,
                   rbuf, ret, nConnects>>

\* perhaps writes a second request on the same connection, once the first
\* has left the stream,
RawSendAgain(c) ==
    /\ controller = "raw"
    /\ pc[c] = "recv"
    /\ c2s[sock[c].id] = <<>>
    /\ c2s' = Transmit(sock[c].id, creq[c])
    /\ nSends' = Bump(nSends, c)
    /\ pc' = [pc EXCEPT ![c] = "again"]
    /\ UNCHANGED <<lvars, pure, cend, send, s2c, hvars, hist, sock, gconn, timer, creq,
                   rbuf, ret, nConnects>>

\* and closes when it likes; what it was sent is not looked at.
RawClose(c) ==
    /\ controller = "raw"
    /\ pc[c] \in {"recv", "again"}
    /\ Finish(c, [cause |-> "closed", kind |-> "raw", text |-> ""], <<>>)
    /\ s2c' = [s2c EXCEPT ![sock[c].id] = <<>>]
    /\ UNCHANGED <<lvars, pure, send, c2s, hvars, hist, gconn>>

\* ------------------------------------------------------------------- Next

Next ==
    \/ Run
    \/ \E k \in ConnIds : Accept(k)
    \/ \E k \in ConnIds : PlgRecv(k)
    \/ \E k \in ConnIds : PlgFinish(k)
    \/ \E k \in ConnIds : SrvRecv(k)
    \/ IdleBegin
    \/ IdleEnd
    \/ HostEventBegin
    \/ HostEventEnd
    \/ \E k \in ConnIds, bytes \in OtherBytes : OtherReply(k, bytes)
    \/ \E k \in ConnIds : OtherClose(k)
    \/ \E c \in Clients : NewGetConn(c)
    \/ \E c \in Clients : NewSend(c)
    \/ \E c \in Clients : NewRecv(c)
    \/ \E c \in Clients : NewTimeout(c)
    \/ \E c \in Clients : NewRecvError(c)
    \/ \E c \in Clients : OldGetConn(c)
    \/ \E c \in Clients : OldSend(c)
    \/ \E c \in Clients : OldRecv(c)
    \/ \E c \in Clients : RawConnect(c)
    \/ \E c \in Clients : RawSend(c)
    \/ \E c \in Clients : RawSendAgain(c)
    \/ \E c \in Clients : RawClose(c)

Spec == Init /\ [][Next]_vars

\* The same with failures of accept(), bind and listen.
SpecLifecycle == Init /\ [][Next \/ AcceptFail \/ RunFail]_vars

\* One controller process calling the tool.
Callers == {"c1"}

\* Calls of the new controller against either listener,
InitCall ==
    /\ Init
    /\ listener \in {"plugin", "server"}
    /\ controller = "new"

NextCall ==
    \/ Run
    \/ \E k \in ConnIds : Accept(k)
    \/ \E k \in ConnIds : PlgRecv(k)
    \/ \E k \in ConnIds : PlgFinish(k)
    \/ \E k \in ConnIds : SrvRecv(k)
    \/ IdleBegin
    \/ IdleEnd
    \/ HostEventBegin
    \/ HostEventEnd
    \/ \E c \in Callers : NewGetConn(c)
    \/ \E c \in Callers : NewSend(c)
    \/ \E c \in Callers : NewRecv(c)
    \/ \E c \in Callers : NewTimeout(c)
    \/ \E c \in Callers : NewRecvError(c)

\* with the host's scheduling: a handler thread inside execute_command goes
\* on running; the main loop finishes the event or the callback it is in,
\* and, each time it is idle again, gets to the work posted with idle_add.
HostProgress ==
    /\ \A k \in ConnIds : WF_vars(PlgFinish(k))
    /\ WF_vars(IdleEnd)
    /\ WF_vars(HostEventEnd)
    /\ SF_vars(IdleBegin)

SpecCall == InitCall /\ [][NextCall]_vars /\ HostProgress

\* The same calls, with run invoked again while the listener runs and with
\* failures of accept(), bind and listen.
SpecRuns == InitCall /\ [][NextCall \/ RunAgain \/ AcceptFail \/ RunFail]_vars

\* The same calls, for a target whose result cannot be encoded and for a
\* path that ends at a value.
InitTargets ==
    /\ listener \in {"plugin", "server"}
    /\ controller = "new"
    /\ path \in ItemPaths \cup ValuePaths
    /\ Quiet
    /\ sample = <<>>
    /\ outcome = <<>>

SpecTargets == InitTargets /\ [][NextCall]_vars

\* ------------------------------------------- overlapping calls, one process

\* Two calls of call_api overlapping in one controller process (two threads
\* of src/gimp_mcp/server.py): pc, creq, rbuf, nConnects and nSends are each
\* call's own, indexed by the call; the one GimpConnection of the process,
\* _gimp_connection, and its self.sock are kept at the index Shared.
Shared == "c1"

\* call_api returns r in call t; its locals are gone.
SharedReturn(t, r, data) ==
    /\ ret' = [client |-> t, conn |-> sock[Shared].id, cause |-> r.cause,
               data |-> data, kind |-> r.kind, text |-> r.text]
    /\ pc' = [pc EXCEPT ![t] = "idle"]
    /\ creq' = [creq EXCEPT ![t] = <<>>]
    /\ rbuf' = [rbuf EXCEPT ![t] = <<>>]
    /\ nConnects' = [nConnects EXCEPT ![t] = 0]
    /\ nSends' = [nSends EXCEPT ![t] = 0]

\* connect succeeds in call t: self.sock is the new socket.
SharedConnected(t, k) ==
    /\ sock' = [sock EXCEPT ![Shared] = ConnSock(k)]
    /\ timer' = [timer EXCEPT ![Shared] = TRUE]
    /\ cend' = [cend EXCEPT ![k] = "open"]
    /\ send' = [send EXCEPT ![k] = "backlog"]
    /\ nConnects' = Bump(nConnects, t)

\* call_api up to get_gimp_connection, lines 101-115: connect only when
\* self.sock is None, whoever set it.
SharedGetConn(t) ==
    /\ controller = "new"
    /\ pc[t] = "idle"
    /\ gconn' = [gconn EXCEPT ![Shared] = TRUE]
    /\ \/ /\ IF sock[Shared] = NoSock
             THEN /\ lsock = "listening"
                  /\ HasFree
                  /\ SharedConnected(t, FreeConn)
             ELSE UNCHANGED <<sock, timer, cend, send, nConnects>>
          /\ Enter(t)
          /\ UNCHANGED <<rbuf, nSends>>
       \/ /\ sock[Shared] = NoSock
          /\ SharedReturn(t, Err("connect", "Could not connect to GIMP."), <<>>)
          /\ UNCHANGED <<sock, timer, cend, send>>
    /\ UNCHANGED <<lvars, pure, c2s, s2c, hvars, hist>>

\* send_command, lines 53-64, in call t: connect if self.sock is None by
\* now, then send on self.sock, whichever call connected it.
SharedSend(t) ==
    /\ controller = "new"
    /\ pc[t] = "send"
    /\ \/ /\ sock[Shared] = NoSock
          /\ lsock = "listening"
          /\ HasFree
          /\ SharedConnected(t, FreeConn)
          /\ c2s' = [c2s EXCEPT ![FreeConn] = Encode(creq[t])]
          /\ nSends' = Bump(nSends, t)
          /\ rbuf' = [rbuf EXCEPT ![t] = <<>>]
          /\ pc' = [pc EXCEPT ![t] = "recv"]
          /\ UNCHANGED <<creq, ret>>
       \/ /\ sock[Shared] = NoSock
          /\ SharedReturn(t, Err("connect", "Could not connect to GIMP."), <<>>)
          /\ UNCHANGED <<sock, timer, cend, send, c2s>>
       \/ /\ sock[Shared].kind = "conn"
          /\ c2s' = Transmit(sock[Shared].id, creq[t])
          /\ nSends' = Bump(nSends, t)
          /\ timer' = [timer EXCEPT ![Shared] = TRUE]
          /\ rbuf' = [rbuf EXCEPT ![t] = <<>>]
          /\ pc' = [pc EXCEPT ![t] = "recv"]
          /\ UNCHANGED <<sock, cend, send, nConnects, creq, ret>>
    /\ UNCHANGED <<lvars, pure, s2c, hvars, hist, gconn>>

\* send_command's finally clause in call t, on whatever self.sock is now,
\* then call_api returns r.
SharedFinish(t, r, data) ==
    /\ CloseSocket(Shared)
    /\ SharedReturn(t, r, data)

\* send_command, lines 66-96, in call t: one turn of the receive loop on
\* self.sock as it is now.  When another call has set it to None,
\* self.sock.recv raises AttributeError, which the outer except reports.
SharedRecv(t) ==
    /\ controller = "new"
    /\ pc[t] = "recv"
    /\ \/ /\ sock[Shared] = NoSock
          /\ SharedFinish(t, Err("nosocket", "Error communicating with GIMP: 'NoneType' object has no attribute 'recv'"), rbuf[t])
          /\ s2c' = s2c
       \/ /\ sock[Shared].kind = "conn"
          /\ LET k == sock[Shared].id
             IN \/ \E chunk \in Chunks(s2c[k]) :
                     /\ rbuf' = [rbuf EXCEPT ![t] = @ \o chunk]
                     /\ s2c' = [s2c EXCEPT ![k] = Drop(@, Len(chunk))]
                     /\ UNCHANGED <<pc, sock, timer, cend, ret, creq, nConnects, nSends>>
                \/ /\ s2c[k] = <<>>
                   /\ send[k] = "closed"
                   /\ SharedFinish(t, NewOutcome(rbuf[t]), rbuf[t])
                   /\ s2c' = s2c
                \/ /\ s2c[k] = <<>>
                   /\ send[k] # "closed"
                   /\ timer[Shared]
                   /\ SharedFinish(t, TimeoutOutcome, rbuf[t])
                   /\ s2c' = s2c
    /\ UNCHANGED <<lvars, pure, send, c2s, hvars, hist, gconn>>

NextOverlap ==
    \/ Run
    \/ \E k \in ConnIds : Accept(k)
    \/ \E k \in ConnIds : PlgRecv(k)
    \/ \E k \in ConnIds : PlgFinish(k)
    \/ \E k \in ConnIds : SrvRecv(k)
    \/ IdleBegin
    \/ IdleEnd
    \/ HostEventBegin
    \/ HostEventEnd
    \/ \E t \in Clients : SharedGetConn(t)
    \/ \E t \in Clients : SharedSend(t)
    \/ \E t \in Clients : SharedRecv(t)

SpecOverlap == InitCall /\ [][NextOverlap]_vars

\* execute_command's helpers applied to one sample each.
InitExecute ==
    /\ listener = "plugin"
    /\ controller = "new"
    /\ path = <<"Gimp", "flush">>
    /\ Quiet
    /\ sample \in Samples
    /\ outcome = <<>>

ApplyInject ==
    /\ sample # <<>>
    /\ outcome = <<>>
    /\ outcome' = [op |-> "inject",
                   call |-> InjectContext(sample.args, sample.kwargs, sample.params)]
    /\ UNCHANGED <<lvars, wire, hvars, hist, cvars, sample>>

ApplyPluginSerialize ==
    /\ sample # <<>>
    /\ outcome = <<>>
    /\ outcome' = [op |-> "plugin", result |-> PluginSerialize(sample.value)]
    /\ UNCHANGED <<lvars, wire, hvars, hist, cvars, sample>>

ApplyServerSerialize ==
    /\ sample # <<>>
    /\ outcome = <<>>
    /\ outcome' = [op |-> "server", result |-> ServerSerialize(sample.value)]
    /\ UNCHANGED <<lvars, wire, hvars, hist, cvars, sample>>

NextExecute == ApplyInject \/ ApplyPluginSerialize \/ ApplyServerSerialize

SpecExecute == InitExecute /\ [][NextExecute]_vars

\* A message through the codec: json.dumps on one side, the bytes as they
\* are, json.loads on the other.
InitCodec ==
    /\ listener = "plugin"
    /\ controller = "new"
    /\ path = <<"Gimp", "flush">>
    /\ Quiet
    /\ sample \in Requests \cup Responses
    /\ outcome = <<>>

ApplyCodec ==
    /\ sample # <<>>
    /\ outcome = <<>>
    /\ outcome' = [op |-> "codec", text |-> Dumps(sample), back |-> Loads(Dumps(sample))]
    /\ UNCHANGED <<lvars, wire, hvars, hist, cvars, sample>>

SpecCodec == InitCodec /\ [][ApplyCodec]_vars

\* The list branch applied to one list each.
InitSequence ==
    /\ listener = "plugin"
    /\ controller = "new"
    /\ path = <<"Gimp", "flush">>
    /\ Quiet
    /\ sample \in ListSamples
    /\ outcome = <<>>

ApplyPluginList ==
    /\ sample # <<>>
    /\ outcome = <<>>
    /\ outcome' = [op |-> "plugin", result |-> PluginSerializeList(sample.items)]
    /\ UNCHANGED <<lvars, wire, hvars, hist, cvars, sample>>

ApplyServerList ==
    /\ sample # <<>>
    /\ outcome = <<>>
    /\ outcome' = [op |-> "server", result |-> ServerSerializeList(sample.items)]
    /\ UNCHANGED <<lvars, wire, hvars, hist, cvars, sample>>

SpecSequence == InitSequence /\ [][ApplyPluginList \/ ApplyServerList]_vars

\* The type field of a decoded request: the one the controllers send, others
\* a peer may send, and none ("" for a request without the field).
Types == {"call_api", "ping", "get_images", ""}

\* Decoded requests of every type.
TypedRequests ==
    { [type |-> t, params |-> [api_path |-> p]] :
        t \in Types, p \in Paths \cup WidePaths \cup ItemPaths \cup ValuePaths }

\* execute_command of either listener applied to one decoded request each.
InitDispatch ==
    /\ listener = "plugin"
    /\ controller = "raw"
    /\ path = <<"boom">>
    /\ Quiet
    /\ sample \in TypedRequests
    /\ outcome = <<>>

ApplyPluginExecute ==
    /\ sample # <<>>
    /\ outcome = <<>>
    /\ outcome' = [op |-> "plugin", exec |-> PluginExecute(sample)]
    /\ UNCHANGED <<lvars, wire, hvars, hist, cvars, sample>>

ApplyServerExecute ==
    /\ sample # <<>>
    /\ outcome = <<>>
    /\ outcome' = [op |-> "server", exec |-> ServerExecute(sample)]
    /\ UNCHANGED <<lvars, wire, hvars, hist, cvars, sample>>

SpecDispatch == InitDispatch /\ [][ApplyPluginExecute \/ ApplyServerExecute]_vars

\* ---------------------------------------------------- apply_gaussian_blur

\* The api_path of each bridge call of apply_gaussian_blur, in program order.
BlurCalls == << "Gimp.Image.get_by_id", "Gimp.Image.get_active_layer",
               "Gimp.get_pdb.run_procedure", "Gimp.displays_flush" >>

\* What call_api may return: ok says the exchange ended with a success
\* Response; body is the string: the JSON of a handle, of a string, of a
\* string that holds the word Error, or "Error: ..." for a failed call.
Replies == { [ok |-> TRUE, body |-> "{\"id\": 5}"],
             [ok |-> TRUE, body |-> "\"None\""],
             [ok |-> TRUE, body |-> "\"<Error layer>\""],
             [ok |-> FALSE, body |-> "Error: boom"] }

\* "Error" in text.
ContainsError(r) == r.body \in {"\"<Error layer>\"", "Error: boom"}

\* json.loads(text)["id"] does not raise.
HasId(r) == r.body = "{\"id\": 5}"

\* The calls whose result is tested, the last but one left out.
TestedButLast(n) == n \in {1, 2}

\* The calls whose result is tested with "Error" in ...: all but the flush.
Tested(n) == n \in {1, 2, 3}

\* The calls whose result is parsed and subscripted with "id".
Subscripted(n) == n \in {1, 2}

BlurSuccess == [ok |-> TRUE, body |-> "Applied Gaussian blur successfully"]

NotReturned == [ok |-> FALSE, body |-> ""]

\* One run of the tool for each choice of what its calls return.
InitBlur ==
    /\ listener = "plugin"
    /\ controller = "new"
    /\ path = <<"Gimp", "flush">>
    /\ Quiet
    /\ sample \in [replies : [1..4 -> Replies]]
    /\ outcome = [issued |-> <<>>, end |-> "running", value |-> NotReturned]

\* apply_gaussian_blur, lines 185-198: the next call_api and what is done
\* with its result: return it if it holds "Error", raise if its "id" cannot
\* be read, return the success message after the flush, else go on.
BlurStep ==
    /\ outcome.end = "running"
    /\ LET n == Len(outcome.issued) + 1
           r == sample.replies[n]
           issued == Append(outcome.issued, BlurCalls[n])
       IN outcome' =
            IF Tested(n) /\ ContainsError(r)
            THEN [issued |-> issued, end |-> "returned", value |-> r]
            ELSE IF Subscripted(n) /\ ~HasId(r)
            THEN [issued |-> issued, end |-> "raised", value |-> NotReturned]
            ELSE IF n = 4
            THEN [issued |-> issued, end |-> "returned", value |-> BlurSuccess]
            ELSE [issued |-> issued, end |-> "running", value |-> NotReturned]
    /\ UNCHANGED <<lvars, wire, hvars, hist, cvars, sample>>

SpecBlur == InitBlur /\ [][BlurStep]_vars

\* ================================================================ properties

\* Invocations of execute_command in progress: handler threads of the plugin
\* variant inside it, and the idle callback of the server variant.
InFlight ==
    Cardinality({ k \in ConnIds : hpc[k] = "exec" }) + (IF mainExec # <<>> THEN 1 ELSE 0)

\* C1: at any instant at most one execute_command is in progress, and none
\* is in progress while the host processes an event of its own.
C1_OneInvocationAtATime ==
    /\ InFlight <= 1
    /\ hostBusy => InFlight = 0

\* C2: on a connection where a request was decoded, the listener writes at
\* most one Response, and once it has written it the listener's side of the
\* connection is closed: it does not go on waiting for the peer.
C2_OneReplyThenClose ==
    \A k \in ConnIds :
        decoded[k] >= 1 =>
            /\ nReplies[k] <= 1
            /\ nReplies[k] = 1 => send[k] = "closed"

\* C3: on one accepted connection at most one request is ever decoded and at
\* most one operation invoked.
C3_OneOperationPerConnection ==
    \A k \in ConnIds : decoded[k] <= 1 /\ invoked[k] <= 1

\* C4: every decoded request whose resolution or invocation failed was
\* answered on its connection with a Response of status "error".
C4_FailureIsAnswered ==
    \A k \in ConnIds :
        \A i \in DOMAIN fate[k] : fate[k][i].failed => fate[k][i].wrote = "error"

\* A call of a controller has ended after an exchange on a connection.
ExchangeEnded(c) ==
    /\ controller \in {"new", "old"}
    /\ ret.client = c
    /\ ret.conn # 0

\* C5: between calls the controller caches no connected socket; after a
\* call that exchanged on a connection, whatever ended it, self.sock is
\* None and that connection is closed on the controller's side.
C5_SocketDiscardedAfterExchange ==
    controller \in {"new", "old"} =>
        \A c \in Clients :
            pc[c] = "idle" =>
                /\ sock[c].kind # "conn"
                /\ ExchangeEnded(c) => sock[c] = NoSock /\ cend[ret.conn] = "closed"

\* A call that ended in a receive timeout is followed by a call on a fresh
\* connection.
C5_Witness ==
    \E c \in Clients :
        /\ ExchangeEnded(c)
        /\ ret.cause = "timeout"
        /\ cend[ret.conn] = "closed"
        /\ pc[c] = "recv"
        /\ sock[c].kind = "conn"
        /\ sock[c].id # ret.conn

\* The three failures of the receive side.
ReceiveFailures == {"timeout", "empty", "undecodable"}

\* C6: a call of the new controller that ended in a receive timeout, an
\* empty stream or undecodable bytes returned an error, never a result; and
\* two successive returns for two different ones of these carry different
\* messages.
C6_FailuresAreDistinct ==
    /\ [](controller = "new" /\ ret.cause \in ReceiveFailures => ret.kind = "Error:")
    /\ [][ controller = "new"
            /\ ret.cause \in ReceiveFailures
            /\ ret'.cause \in ReceiveFailures
            /\ ret'.cause # ret.cause
            => ret'.text # ret.text ]_vars

\* The new controller has returned the error for undecodable bytes.
C6_Witness ==
    /\ controller = "new"
    /\ ret.cause = "undecodable"
    /\ ret.data # <<>>
    /\ ~Decodes(ret.data)
    /\ ret.kind = "Error:"

\* A decoded Response that reports success and carries a result.
IsSuccess(m) == "status" \in DOMAIN m /\ m.status = "success" /\ "result" \in DOMAIN m

\* C7: call_api of the new controller returns a string whatever happened,
\* and returns a result only for a decoded Response that reports success
\* with a result, of an operation that did not fail; every other return is
\* prefixed "Error:".
C7_CallApiReturnsString ==
    controller = "new" /\ ret.client # "" =>
        /\ ret.kind \in {"json", "Error:"}
        /\ ret.kind = "json" =>
              /\ ret.cause = "decoded"
              /\ Decodes(ret.data)
              /\ IsSuccess(Decode(ret.data))
              /\ \A i \in DOMAIN fate[ret.conn] : ~fate[ret.conn][i].failed

\* call_api has returned an error for a decoded Response without a status.
C7_Witness ==
    /\ controller = "new"
    /\ ret.cause = "decoded"
    /\ Decodes(ret.data)
    /\ "status" \notin DOMAIN Decode(ret.data)
    /\ ret.kind = "Error:"

\* C8: within one call a controller opens at most one connection and sends
\* its request at most once, and on a controller's connection the host
\* invokes at most one operation.
C8_AtMostOnce ==
    controller \in {"new", "old"} =>
        /\ \A c \in Clients : nConnects[c] <= 1 /\ nSends[c] <= 1
        /\ \A k \in ConnIds : invoked[k] <= 1

\* A call ended in a receive timeout and the host invoked its operation.
C8_Witness ==
    \E c \in Clients :
        /\ ExchangeEnded(c)
        /\ ret.cause = "timeout"
        /\ invoked[ret.conn] = 1
        /\ pc[c] = "idle"

\* C9: in every controller variant a call waiting in recv has a receive
\* timeout armed.
C9_ReceiveHasTimeout ==
    controller \in {"new", "old"} =>
        \A c \in Clients : pc[c] = "recv" => timer[c]

\* C10: paired with the server variant of the listener, a call of the new
\* controller does not end in a receive timeout when the bytes it had
\* accumulated decode to a Response that reports success.
C10_DecodedIsReturned ==
    controller = "new" /\ listener = "server" /\ ret.cause = "timeout" =>
        ~(Decodes(ret.data) /\ IsSuccess(Decode(ret.data)))

\* C11: a listener that is accepting stays accepting across every step, a
\* failure of accept() included.
C11_AcceptFailureLoopedPast ==
    [][ (listener \in {"plugin", "server"} /\ running /\ lsock = "listening")
        => (running' /\ lsock' = "listening") ]_vars

\* C12: a step in which bind or listen fails leaves the listener stopped,
\* holding no socket, and run not reporting success to the host.
C12_BindFailureSurfaced ==
    [][ RunFail => (~running' /\ lsock' = "none" /\ report' # "success") ]_vars

\* C13: the server variant's handler treats a buffer that does not decode
\* as "need more bytes": it ends, and closes the connection, only after its
\* peer has closed.
C13_PartialBufferKeepsConnection ==
    listener = "server" =>
        \A k \in ConnIds : hpc[k] = "done" => cend[k] = "closed"

\* C14: on a connection where no request has been decoded, no operation has
\* been invoked and no response byte written; and a handler that has ended
\* has closed its client socket.
C14_UndecodedIsAbandoned ==
    listener \in {"plugin", "server"} =>
        \A k \in ConnIds :
            /\ decoded[k] = 0 =>
                  invoked[k] = 0 /\ nReplies[k] = 0 /\ fate[k] = <<>> /\ s2c[k] = <<>>
            /\ hpc[k] = "done" => send[k] = "closed"

\* The plugin variant's single read returned only the start of a request:
\* the handler has ended with the rest unread.
C14_Witness ==
    \E k \in ConnIds :
        /\ listener = "plugin"
        /\ hpc[k] = "done"
        /\ decoded[k] = 0
        /\ c2s[k] # <<>>
        /\ c2s[k][1].part = "tail"
        /\ send[k] = "closed"

\* The object at Root.s1...sn: one lookup per segment after the root's name.
ObjectAt(p) ==
    LET w == Walk("Gimp", Tail(p)) IN IF w.ok THEN w.node ELSE "undef"

\* C15: for a path that starts with the root's name, what a listener
\* resolved for an executed request is the object at that path.
C15_ResolvesObjectAtPath ==
    listener \in {"plugin", "server"} /\ Head(path) = "Gimp" =>
        \A k \in ConnIds :
            \A i \in DOMAIN fate[k] : fate[k][i].target = ObjectAt(path)

\* C16: an executed request whose resolution met an undefined segment was
\* not invoked, and its Response has status "error" and an error field that
\* names the segment.
C16_UndefinedSegmentNamed ==
    \A k \in ConnIds :
        \A i \in DOMAIN fate[k] :
            LET f == fate[k][i]
                w == Walk("Gimp", IF listener = "plugin" THEN Tail(path) ELSE path)
            IN f.target = "undef" =>
                 /\ ~f.called
                 /\ f.response.status = "error"
                 /\ "error" \in DOMAIN f.response
                 /\ f.response.error = w.seg

\* C17: when kwargs holds image_id and the target declares the image
\* parameter, the target is called with the context for that id as its first
\* positional argument and without image_id among its keywords.
C17_ContextInjected ==
    outcome # <<>> /\ outcome.op = "inject" /\ "image_id" \in DOMAIN sample.kwargs
    /\ (\E i \in DOMAIN sample.params : sample.params[i] = "image") =>
        /\ ~outcome.call.raised
        /\ outcome.call.args # <<>>
        /\ outcome.call.args[1] = Ctx(sample.kwargs.image_id)
        /\ "image_id" \notin DOMAIN outcome.call.kwargs

\* C18: the serialized form of a scalar result is the scalar itself, with
\* its type.
C18_ScalarPassThrough ==
    outcome # <<>> /\ outcome.op \in {"plugin", "server"} /\ sample.value \in Scalars =>
        outcome.result = sample.value

\* C19: in both listener variants the serialized form of an object that
\* exposes id is the handle descriptor of that id.
C19_HandleReduction ==
    outcome # <<>> /\ outcome.op \in {"plugin", "server"}
    /\ sample.value \in Objects /\ "id" \in sample.value.attrs =>
        outcome.result = Handle(sample.value.n)

\* Every byte of a buffer travelled on connection k.
AllOnConn(buf, k) == \A i \in DOMAIN buf : buf[i].conn = k

\* C20: a call of the new controller starts with no bytes, accumulates only
\* bytes of its own connection, and returns a result only when those bytes
\* decode, that result being the one they hold; a call ended otherwise
\* returns an error.
C20_NoStaleResult ==
    controller = "new" =>
        /\ \A c \in Clients :
              /\ pc[c] \in {"idle", "send"} => rbuf[c] = <<>>
              /\ AllOnConn(rbuf[c], sock[c].id)
        /\ ret.client # "" =>
              /\ AllOnConn(ret.data, ret.conn)
              /\ ret.cause # "decoded" => ret.kind = "Error:"
              /\ ret.kind = "json" =>
                    Decodes(ret.data) /\ ret.text = Decode(ret.data).result

\* A call timed out with a whole Response in its buffer and returned an
\* error, and the same client's next call is reading on another connection.
C20_Witness ==
    \E c \in Clients :
        /\ controller = "new"
        /\ ret.client = c
        /\ ret.cause = "timeout"
        /\ Decodes(ret.data)
        /\ ret.kind = "Error:"
        /\ pc[c] = "recv"
        /\ sock[c].id # ret.conn
        /\ rbuf[c] # <<>>

\* C21: a request the listener has decoded is executed to completion whatever
\* the controller does meanwhile, its timeout and close included, and no step
\* takes an invocation back.
C21_NoCancellation ==
    /\ \A k \in ConnIds : (decoded[k] >= 1) ~> (Len(fate[k]) >= 1)
    /\ [][ \A k \in ConnIds :
             invoked'[k] >= invoked[k] /\ Len(fate'[k]) >= Len(fate[k]) ]_vars

\* The caller holds a timeout error for a call that had received nothing,
\* its connection is closed, and the host has invoked the call's target.
C21_Witness ==
    \E k \in ConnIds :
        /\ ret.conn = k
        /\ ret.cause = "timeout"
        /\ ret.kind = "Error:"
        /\ ret.data = <<>>
        /\ cend[k] = "closed"
        /\ s2c[k] = <<>>
        /\ fate[k] # <<>>
        /\ fate[k][1].called
        /\ ~fate[k][1].failed

\* C22: a controller whose last call ended in a failed connect has reported
\* an error and holds no socket, so that its next call connects afresh.
C22_FailedConnectDiscarded ==
    controller \in {"new", "old"} =>
        \A c \in Clients :
            pc[c] = "idle" /\ ret.client = c /\ ret.cause = "connect" =>
                /\ ret.kind = "Error:"
                /\ sock[c] = NoSock

\* C23: what json.loads gives for the bytes json.dumps wrote for a Request
\* or a Response is a message equal to the one written.
C23_RoundTrip ==
    outcome # <<>> /\ outcome.op = "codec" =>
        outcome.back.ok /\ outcome.back.val = sample

\* A request with two different positional arguments, keywords and a path
\* holding a character outside ASCII has gone through the codec, its path
\* escaped on the wire.
C23_Witness ==
    /\ outcome # <<>>
    /\ outcome.op = "codec"
    /\ sample \in Requests
    /\ sample.map.params.map.api_path.s = "Gimp.café"
    /\ Len(sample.map.params.map.args.items) = 2
    /\ sample.map.params.map.args.items[1] # sample.map.params.map.args.items[2]
    /\ DOMAIN sample.map.params.map.kwargs.map # {}
    /\ \E i \in DOMAIN outcome.text : outcome.text[i].s = "Gimp.caf\\u00e9"
    /\ outcome.back.val.map.params.map.args.items = sample.map.params.map.args.items

\* A unit of work posted for connection k has not completed.
Pending(k) ==
    \/ \E i \in DOMAIN idleq : idleq[i].conn = k
    \/ mainExec # <<>> /\ mainExec.conn = k

\* C24: in the server variant, while a unit of work posted for a connection
\* has not completed the handler thread has not closed the client socket,
\* and no reply was ever lost to a socket the handler had closed.
C24_HandlerWaitsForUnit ==
    listener = "server" =>
        \A k \in ConnIds :
            /\ Pending(k) => send[k] = "open" /\ hpc[k] = "recv"
            /\ \A i \in DOMAIN fate[k] : fate[k][i].wrote # "lost"

\* An exception left execute_command: the server variant's last statement,
\* which is outside its try, raised in sendall on a closed client socket or
\* in json.dumps.
Escaped(f) == f.wrote = "lost" \/ (listener = "server" /\ f.wrote = "unencodable")

\* C25: of every request executed, no exception has left execute_command:
\* each was answered with the outcome of its execution, a failed one with an
\* error outcome.
C25_NothingEscapesExecute ==
    listener \in {"plugin", "server"} =>
        \A k \in ConnIds :
            \A i \in DOMAIN fate[k] :
                /\ ~Escaped(fate[k][i])
                /\ fate[k][i].wrote = fate[k][i].response.status

\* The handler of connection k has failed: it ended without having decoded
\* a request (undecodable bytes, a failed receive), or a reply for k was
\* lost to a failed send.
HandlerFailed(k) ==
    \/ hpc[k] = "done" /\ decoded[k] = 0
    \/ \E i \in DOMAIN fate[k] : fate[k][i].wrote = "lost"

\* C26: after a failure inside the handler of a connection the listener is
\* still accepting.
C26_HandlerFailureContained ==
    listener \in {"plugin", "server"} =>
        \A k \in ConnIds : HandlerFailed(k) => running /\ lsock = "listening"

\* A handler has failed on one connection and a later connection was
\* served: its request executed and answered with success.
C26_Witness ==
    \E k, j \in ConnIds :
        /\ listener \in {"plugin", "server"}
        /\ k < j
        /\ HandlerFailed(k)
        /\ running
        /\ fate[j] # <<>>
        /\ fate[j][1].wrote = "success"
        /\ send[j] = "closed"

\* C27: when the Response of an executed request could not be encoded, the
\* listener has written nothing on the connection and has closed it.
C27_UnencodableClosesConnection ==
    \A k \in ConnIds :
        \A i \in DOMAIN fate[k] :
            fate[k][i].wrote = "unencodable" =>
                /\ nReplies[k] = 0
                /\ s2c[k] = <<>>
                /\ send[k] = "closed"

\* C28: an executed request whose walk ended at a value that is not callable
\* was not invoked, and its Response has status "success" and that value as
\* its result.
C28_ValueIsRead ==
    \A k \in ConnIds :
        \A i \in DOMAIN fate[k] :
            LET f == fate[k][i]
            IN f.target # "undef" /\ ~IsCallable(f.target) =>
                 /\ ~f.called
                 /\ f.response.status = "success"
                 /\ f.response.result = f.target

\* C29: for a request without image_id among its keywords, the target is
\* called with exactly the request's positional arguments, whatever its
\* parameters are named.
C29_ArgsUntouchedWithoutKey ==
    outcome # <<>> /\ outcome.op = "inject" /\ "image_id" \notin DOMAIN sample.kwargs =>
        /\ ~outcome.call.raised
        /\ outcome.call.args = sample.args

\* C30: when the target declares the image parameter and the request has no
\* positional argument, or the image parameter is not the target's first,
\* the injection raises and the target is not called.
C30_MismatchIsAnError ==
    outcome # <<>> /\ outcome.op = "inject"
    /\ (\E i \in DOMAIN sample.params : sample.params[i] = "image")
    /\ (sample.args = <<>> \/ sample.params[1] # "image") =>
        outcome.call.raised

\* C31: the serialized form of a list has one element for each element of
\* the list, in order; an element that exposes id is a handle descriptor of
\* that id, and any other element is what the top-level rule gives for it.
C31_ElementsSerializedAlike ==
    outcome # <<>> /\ outcome.op \in {"plugin", "server"} =>
        /\ Len(outcome.result) = Len(sample.items)
        /\ \A i \in DOMAIN sample.items :
              LET x   == sample.items[i]
                  top == IF outcome.op = "plugin" THEN PluginSerialize(x)
                         ELSE ServerSerialize(x)
              IN IF "id" \in x.attrs
                 THEN outcome.result[i].t = "handle" /\ outcome.result[i].n = x.n
                 ELSE outcome.result[i] = top

\* What call_api returns when a subscript on the decoded Response raised
\* KeyError: the name of the missing field.
LookupFailures == {"'status'", "'result'", "'error'"}

\* C32: every Response of status "error" a listener produced carries its
\* message in a field named error, and an error call_api returned for a
\* decoded Response is never the text of a failed field lookup.
C32_ErrorFieldNamedError ==
    listener \in {"plugin", "server"} =>
        /\ \A k \in ConnIds :
              \A i \in DOMAIN fate[k] :
                  fate[k][i].response.status = "error" =>
                      "error" \in DOMAIN fate[k][i].response
        /\ controller \in {"new", "old"} /\ ret.cause = "decoded" /\ ret.kind = "Error:" =>
              ret.text \notin LookupFailures

\* C33: for a decoded request whose type is not "call_api", execute_command
\* looks nothing up, calls nothing, and answers with an error Response.
C33_UnknownTypeTouchesNothing ==
    outcome # <<>> /\ sample.type # "call_api" =>
        /\ ~outcome.exec.called
        /\ outcome.exec.target = "undef"
        /\ outcome.exec.response.status = "error"

\* C34: of two overlapping calls in one process, each call that waits for
\* its Response has opened a connection of its own, self.sock is still that
\* of a call in progress, no connection carries more than one request, and
\* a call accumulates bytes of one connection only.
C34_OverlappingCallsIsolated ==
    /\ \A t \in Clients :
          pc[t] = "recv" => nConnects[t] = 1 /\ sock[Shared].kind = "conn"
    /\ \A k \in ConnIds : Len(c2s[k]) <= 2 /\ decoded[k] <= 1
    /\ \A t \in Clients : \E k \in ConnIds : AllOnConn(rbuf[t], k)

\* C35: a run invoked while the listener is running creates and binds no
\* socket, and leaves the listener accepting on the socket it had.
C35_RunIsIdempotent ==
    /\ [](rebinds = 0)
    /\ [][ RunAgain => UNCHANGED <<running, lsock>> ]_vars

\* C36: in the plugin variant the listening socket exists only while running
\* is True, and a step in which run's try block raised leaves running False
\* and no socket, from where run can start again.
C36_ListenerFieldsConsistent ==
    /\ [](listener = "plugin" => (lsock = "listening" => running))
    /\ [][ (listener = "plugin" /\ (AcceptFail \/ RunFail))
           => (~running' /\ lsock' = "none" /\ (ENABLED Run)') ]_vars

\* The plugin variant is accepting again after a failure of accept() that
\* reset a connection waiting in the backlog.
C36_Witness ==
    \E k \in ConnIds :
        /\ listener = "plugin"
        /\ send[k] = "closed"
        /\ hpc[k] = "none"
        /\ running
        /\ lsock = "listening"

====
